---------------------------- MODULE Spec2Model ----------------------------
(***************************************************************************)
(* Model of the quiz "Qui Veut Gagner des Electrons": the Question and     *)
(* QuestionList classes of questions.py (question construction, the three  *)
(* lifelines, answer validation, reset) and the page controller Game of    *)
(* main.py with the pages of pages/*.py.                                   *)
(*                                                                         *)
(* Python lists are 0-based: a 4-entry list is a function over 0..3, the   *)
(* list of questions is a sequence read with At(list, i) == list[i + 1].   *)
(* A Python string is modelled by its base text and the suffixes that were *)
(* appended to it, so that a label with an annotation differs from the     *)
(* bare marker "---" exactly as the strings do.                            *)
(***************************************************************************)
EXTENDS Integers, Sequences, FiniteSets, TLC

\* ------------------------------------------------------------------ bounds
\* Finest resolution of the random source: a percent drawn by randint(lo, hi)
\* is one of RandGrain + 1 evenly spread values of lo..hi, lo and hi included.
RandGrain == 1
\* Cap of the per-session count of reveal signals (a history counter).
MaxReveals == 2
\* Most events pygame.event.get() returns in one frame.
MaxBatch == 1
\* Longest time between two frames, in half seconds.
MaxTick == 1
\* Cap of the per-session counts of answer and victory signals (a history
\* counter).
MaxSignals == 4

\* ------------------------------------------------------- program constants
QUESTION_COUNT == 6
RANDOMIZE_CHOICES == FALSE

Idx == 0..3

At(list, i) == list[i + 1]

\* ---------------------------------------------------------------- strings
Str(s) == [txt |-> s, notes |-> <<>>]
Concat(label, note) == [label EXCEPT !.notes = Append(@, note)]
ELIMINATED == Str("---")

\* ------------------------------------------------------------------ state
\* yaml: the records of questions.yaml.  grain: the resolution of the random
\* source in this run (fixed by Init).  questions .. public_used: the fields
\* of the QuestionList.  signal: the exception the last call on the
\* QuestionList, or the last step of the Game, ended with.  reveals: history,
\* the number of reveal signals of each lifeline raised since the last reset.
\* current_page: the page object of the Game.  running: the main loop has not
\* been left.  received: history, the numbers of GoodAnswerException and
\* VictoryException that reached Game.step since the last reset, and
\* (streak) the number of GoodAnswerException that reached it since the last
\* BadAnswerException or reset.  frame:
\* history, what the last call of Game.step did: the number of events it
\* dispatched to the page, whether it called the page's draw, and the number
\* of exceptions it caught.  building: the local state of a call of
\* Question.__init__ that is in progress (NoBuilding outside such a call).
VARIABLES yaml, grain, questions, current_question, fifty_used, phone_used,
          public_used, signal, reveals, current_page, running, received,
          frame, building

vars == <<yaml, grain, questions, current_question, fifty_used, phone_used,
          public_used, signal, reveals, current_page, running, received,
          frame, building>>

\* -------------------------------------------------------- random source
randint(lo, hi) == lo..hi

\* randint(lo, hi) over a percent range, at the resolution of the run.
SampledRandint(lo, hi) ==
    IF grain = 0 THEN {lo}
    ELSE {lo + ((hi - lo) * k) \div grain : k \in 0..grain}

\* sample(population, k): every sequence of k distinct members.
sample(population, k) ==
    {s \in [1..k -> 1..Len(population)] :
        \A i, j \in 1..k : i # j => s[i] # s[j]}

\* ---------------------------------------------------------- question file
ChoiceTxt == [i \in Idx |-> CASE i = 0 -> "A" [] i = 1 -> "B"
                                 [] i = 2 -> "C" [] OTHER -> "D"]

YamlRecord(n, flags) ==
    [question |-> n,
     choices |-> [i \in Idx |-> [txt |-> ChoiceTxt[i], correct |-> i \in flags]]]

\* The sets of choices a record of the file may flag as correct: none, one
\* (first, middle or last position) or two.
\* A file of one record, with any set of choices flagged as correct.
OneRecordFiles == {<<YamlRecord(1, flags)>> : flags \in SUBSET Idx}

\* A file of two well-formed records (one correct choice each): the session
\* holds min(2, QUESTION_COUNT) = 2 questions.
SessionFile == <<YamlRecord(1, {2}), YamlRecord(2, {0})>>

\* A file of one well-formed record: a session of one question.
GameFile == <<YamlRecord(1, {2})>>

\* ---------------------------------------------------------------- Question
\* The loop "while len(fifty_fifty) != 2: fifty_fifty.add(randint(0, 100) % 4)":
\* the sets the loop can hold, closed under one more iteration.
RECURSIVE FiftyLoopReach(_)
FiftyLoopReach(S) ==
    LET step == S \cup {ff \cup {r % 4} :
                          ff \in {x \in S : Cardinality(x) # 2},
                          r \in randint(0, 100)}
    IN IF step = S THEN S ELSE FiftyLoopReach(step)

\* The values of fifty_fifty with which the loop can exit.
FiftyLoopExit(marked) ==
    {ff \in FiftyLoopReach({marked}) : Cardinality(ff) = 2}

\* Variant of CorrectAfter: a flag met after the first flagged choice is
\* skipped.
RECURSIVE CorrectAfter_first_wins(_, _, _)
CorrectAfter_first_wins(choices, i, acc) ==
    IF i > 3 THEN acc
    ELSE IF choices[i].correct THEN i
    ELSE CorrectAfter_first_wins(choices, i + 1, acc)

\* for i, choice in iterator: if choice.get("correct"): correct_answer = i
RECURSIVE CorrectAfter(_, _, _)
CorrectAfter(choices, i, acc) ==
    IF i > 3 THEN acc
    ELSE CorrectAfter(choices, i + 1, IF choices[i].correct THEN i ELSE acc)

ChoiceOrders ==
    IF RANDOMIZE_CHOICES
    THEN {p \in [Idx -> Idx] : \A i, j \in Idx : i # j => p[i] # p[j]}
    ELSE {[i \in Idx |-> i]}

\* Question.__init__: the set of objects construction can yield (empty when
\* the completion loop cannot exit).
Question_init(data) ==
    UNION {
        LET choices == [i \in Idx |-> data.choices[p[i]]] IN
        {[text |-> data.question,
          answers |-> [i \in Idx |-> Str(choices[i].txt)],
          display_answers |-> [i \in Idx |-> Str(choices[i].txt)],
          correct_answer |-> CorrectAfter(choices, 0, 0),
          fifty_fifty |-> ff,
          phone |-> <<>>,
          public |-> <<>>] :
            ff \in FiftyLoopExit({i \in Idx : choices[i].correct})} :
        p \in ChoiceOrders}

is_right_answer(q, answer) == answer = q.correct_answer

\* Variant of Question.use_fifty: the marker is written into answers as well.
Question_use_fifty_marks_answers(q) ==
    [q EXCEPT !.display_answers =
                [i \in Idx |-> IF i \notin q.fifty_fifty THEN ELIMINATED
                               ELSE @[i]],
              !.answers =
                [i \in Idx |-> IF i \notin q.fifty_fifty THEN ELIMINATED
                               ELSE @[i]]]

Question_use_fifty(q) ==
    [q EXCEPT !.display_answers =
        [i \in Idx |-> IF i \notin q.fifty_fifty THEN ELIMINATED ELSE @[i]]]

\* Variant of Question.use_phone: the two confidence ranges are exchanged.
Question_use_phone_ranges_swapped(q) ==
    UNION {
        {[q EXCEPT !.display_answers[idx] = Concat(@, <<"phone", v>>),
                   !.phone = <<idx, v>>] :
            v \in IF idx = q.correct_answer
                  THEN SampledRandint(0, 70)
                  ELSE SampledRandint(40, 100)} :
        idx \in {i \in randint(0, 3) : q.display_answers[i] # ELIMINATED}}

\* Variant of Question.use_phone: the first index drawn is taken, whatever
\* its label.
Question_use_phone_any_index(q) ==
    UNION {
        {[q EXCEPT !.display_answers[idx] = Concat(@, <<"phone", v>>),
                   !.phone = <<idx, v>>] :
            v \in IF idx = q.correct_answer
                  THEN SampledRandint(40, 100)
                  ELSE SampledRandint(0, 70)} :
        idx \in randint(0, 3)}

\* Question.use_phone: every (idx, v) the random draws can produce; the
\* loop exits on the first drawn idx whose label is not the marker.
Question_use_phone(q) ==
    UNION {
        {[q EXCEPT !.display_answers[idx] = Concat(@, <<"phone", v>>),
                   !.phone = <<idx, v>>] :
            v \in IF idx = q.correct_answer
                  THEN SampledRandint(40, 100)
                  ELSE SampledRandint(0, 70)} :
        idx \in {i \in randint(0, 3) : q.display_answers[i] # ELIMINATED}}

Sum4(l) == l[0] + l[1] + l[2] + l[3]

\* Variant of PublicDraw: the four draws come from randint(0, 40).
PublicDraw_wide(q) ==
    IF \E i \in Idx : q.display_answers[i] = ELIMINATED
    THEN {[i \in Idx |->
             IF i = q.correct_answer THEN r
             ELSE IF q.display_answers[i] = ELIMINATED THEN 0
             ELSE 100 - r] :
           r \in SampledRandint(40, 90)}
    ELSE {[l EXCEPT ![q.correct_answer] = @ + (100 - Sum4(l))] :
           l \in [Idx -> SampledRandint(0, 40)]}

\* Variant of PublicDraw: the correct choice keeps its own draw and the
\* remainder goes to choice 0.
PublicDraw_remainder_first(q) ==
    IF \E i \in Idx : q.display_answers[i] = ELIMINATED
    THEN {[i \in Idx |->
             IF i = q.correct_answer THEN r
             ELSE IF q.display_answers[i] = ELIMINATED THEN 0
             ELSE 100 - r] :
           r \in SampledRandint(40, 90)}
    ELSE {[l EXCEPT ![0] = @ + (100 - Sum4(l))] :
           l \in [Idx -> SampledRandint(0, 30)]}

\* Variant of PublicDraw: the elimination branch does not skip the eliminated
\* choices.
PublicDraw_no_skip(q) ==
    IF \E i \in Idx : q.display_answers[i] = ELIMINATED
    THEN {[i \in Idx |->
             IF i = q.correct_answer THEN r ELSE 100 - r] :
           r \in SampledRandint(40, 90)}
    ELSE {[l EXCEPT ![q.correct_answer] = @ + (100 - Sum4(l))] :
           l \in [Idx -> SampledRandint(0, 30)]}

\* Variant of PublicDraw: the remainder is assigned to the correct choice
\* instead of being added to its draw.
PublicDraw_remainder_assigned(q) ==
    IF \E i \in Idx : q.display_answers[i] = ELIMINATED
    THEN {[i \in Idx |->
             IF i = q.correct_answer THEN r
             ELSE IF q.display_answers[i] = ELIMINATED THEN 0
             ELSE 100 - r] :
           r \in SampledRandint(40, 90)}
    ELSE {[l EXCEPT ![q.correct_answer] = 100 - Sum4(l)] :
           l \in [Idx -> SampledRandint(0, 30)]}

\* The list self.public computed by Question.use_public.
PublicDraw(q) ==
    IF \E i \in Idx : q.display_answers[i] = ELIMINATED
    THEN {[i \in Idx |->
             IF i = q.correct_answer THEN r
             ELSE IF q.display_answers[i] = ELIMINATED THEN 0
             ELSE 100 - r] :
           r \in SampledRandint(40, 90)}
    ELSE {[l EXCEPT ![q.correct_answer] = @ + (100 - Sum4(l))] :
           l \in [Idx -> SampledRandint(0, 30)]}

Question_use_public(q) ==
    {[q EXCEPT !.public = pub,
               !.display_answers =
                   [i \in Idx |-> IF @[i] = ELIMINATED THEN @[i]
                                  ELSE Concat(@[i], <<"pct", pub[i]>>)]] :
        pub \in PublicDraw(q)}

\* ------------------------------------------------------------ QuestionList

\* The QuestionList object.
QL == [questions |-> questions, current_question |-> current_question,
       fifty_used |-> fifty_used, phone_used |-> phone_used,
       public_used |-> public_used]

\* What a call ends with: a normal return (exc = "return") or an exception
\* with its payload (question: position in the list, answer), -1 for None.
Outcome(ql, exc, question, answer) ==
    [ql |-> ql, exc |-> exc, question |-> question, answer |-> answer]

NoSignal == [exc |-> "return", question |-> -1, answer |-> -1]

\* QuestionList._read_yaml: the lists of questions a load can build.
RECURSIVE BuildQuestions(_, _)
BuildQuestions(data, order) ==
    IF order = <<>> THEN {<<>>}
    ELSE {<<q>> \o rest : q \in Question_init(data[Head(order)]),
                          rest \in BuildQuestions(data, Tail(order))}

Min(a, b) == IF a < b THEN a ELSE b

read_yaml(data) ==
    UNION {BuildQuestions(data, order) :
             order \in sample(data, Min(Len(data), QUESTION_COUNT))}

\* Variant of reset: the lifeline flags are left as they are.
reset_keeps_lifelines(ql, data) ==
    {[questions |-> qs, current_question |-> 0, fifty_used |-> ql.fifty_used,
      phone_used |-> ql.phone_used, public_used |-> ql.public_used] :
        qs \in read_yaml(data)}

\* QuestionList.reset
reset(ql, data) ==
    {[questions |-> qs, current_question |-> 0, fifty_used |-> FALSE,
      phone_used |-> FALSE, public_used |-> FALSE] : qs \in read_yaml(data)}

\* Variant of get_current_question: the bound is off by one.
get_current_question_early(ql) ==
    IF ql.current_question >= Len(ql.questions) - 1 THEN -1
    ELSE ql.current_question

\* QuestionList.get_current_question: the position returned, or -1 when
\* VictoryException is raised.
get_current_question(ql) ==
    IF ql.current_question >= Len(ql.questions) THEN -1
    ELSE ql.current_question

Victory(ql) == Outcome(ql, "VictoryException", -1, -1)

\* Variant of validate_answer: a wrong answer leaves the cursor where it is.
validate_answer_keeps_cursor(ql, answer) ==
    LET question == get_current_question(ql) IN
    IF question = -1 THEN Victory(ql)
    ELSE IF At(ql.questions, question).answers[answer] = ELIMINATED
    THEN Outcome(ql, "return", -1, -1)
    ELSE IF is_right_answer(At(ql.questions, get_current_question(ql)), answer)
    THEN Outcome([ql EXCEPT !.current_question = @ + 1],
                 "GoodAnswerException", question, answer)
    ELSE Outcome(ql, "BadAnswerException", question, answer)

\* Variant of validate_answer: the question of GoodAnswerException is read
\* after the increment.
validate_answer_next_payload(ql, answer) ==
    LET question == get_current_question(ql) IN
    IF question = -1 THEN Victory(ql)
    ELSE IF At(ql.questions, question).answers[answer] = ELIMINATED
    THEN Outcome(ql, "return", -1, -1)
    ELSE IF is_right_answer(At(ql.questions, get_current_question(ql)), answer)
    THEN Outcome([ql EXCEPT !.current_question = @ + 1],
                 "GoodAnswerException", question + 1, answer)
    ELSE Outcome([ql EXCEPT !.current_question = 0],
                 "BadAnswerException", question, answer)

\* Variant of validate_answer: a wrong answer moves the cursor one question
\* back.
validate_answer_steps_back(ql, answer) ==
    LET question == get_current_question(ql) IN
    IF question = -1 THEN Victory(ql)
    ELSE IF At(ql.questions, question).answers[answer] = ELIMINATED
    THEN Outcome(ql, "return", -1, -1)
    ELSE IF is_right_answer(At(ql.questions, get_current_question(ql)), answer)
    THEN Outcome([ql EXCEPT !.current_question = @ + 1],
                 "GoodAnswerException", question, answer)
    ELSE Outcome([ql EXCEPT !.current_question = @ - 1],
                 "BadAnswerException", question, answer)

\* Variant of validate_answer: a wrong answer also gives the lifelines back.
validate_answer_clears_lifelines(ql, answer) ==
    LET question == get_current_question(ql) IN
    IF question = -1 THEN Victory(ql)
    ELSE IF At(ql.questions, question).answers[answer] = ELIMINATED
    THEN Outcome(ql, "return", -1, -1)
    ELSE IF is_right_answer(At(ql.questions, get_current_question(ql)), answer)
    THEN Outcome([ql EXCEPT !.current_question = @ + 1],
                 "GoodAnswerException", question, answer)
    ELSE Outcome([ql EXCEPT !.current_question = 0, !.fifty_used = FALSE,
                            !.phone_used = FALSE, !.public_used = FALSE],
                 "BadAnswerException", question, answer)

\* Variant of validate_answer: a wrong answer leaves the cursor where it is.
validate_answer_wrong_stays(ql, answer) ==
    LET question == get_current_question(ql) IN
    IF question = -1 THEN Victory(ql)
    ELSE IF At(ql.questions, question).answers[answer] = ELIMINATED
    THEN Outcome(ql, "return", -1, -1)
    ELSE IF is_right_answer(At(ql.questions, get_current_question(ql)), answer)
    THEN Outcome([ql EXCEPT !.current_question = @ + 1],
                 "GoodAnswerException", question, answer)
    ELSE Outcome(ql, "BadAnswerException", question, answer)

\* Variant of validate_answer: a right answer moves the cursor two questions
\* forward.
validate_answer_right_skips(ql, answer) ==
    LET question == get_current_question(ql) IN
    IF question = -1 THEN Victory(ql)
    ELSE IF At(ql.questions, question).answers[answer] = ELIMINATED
    THEN Outcome(ql, "return", -1, -1)
    ELSE IF is_right_answer(At(ql.questions, get_current_question(ql)), answer)
    THEN Outcome([ql EXCEPT !.current_question = @ + 2],
                 "GoodAnswerException", question, answer)
    ELSE Outcome([ql EXCEPT !.current_question = 0],
                 "BadAnswerException", question, answer)

\* QuestionList.validate_answer
validate_answer(ql, answer) ==
    LET question == get_current_question(ql) IN
    IF question = -1 THEN Victory(ql)
    ELSE IF At(ql.questions, question).answers[answer] = ELIMINATED
    THEN Outcome(ql, "return", -1, -1)
    ELSE IF is_right_answer(At(ql.questions, get_current_question(ql)), answer)
    THEN Outcome([ql EXCEPT !.current_question = @ + 1],
                 "GoodAnswerException", question, answer)
    ELSE Outcome([ql EXCEPT !.current_question = 0],
                 "BadAnswerException", question, answer)

\* Variant of use_fifty: the flag is never set.
use_fifty_flagless(ql) ==
    IF ql.fifty_used THEN {Outcome(ql, "return", -1, -1)}
    ELSE LET cur == get_current_question(ql)
         IN IF cur = -1 THEN {Victory(ql)}
            ELSE {Outcome([ql EXCEPT !.questions[cur + 1] =
                                         Question_use_fifty(@)],
                          "FiftyException", cur, -1)}

\* Variant of use_fifty: the choices of the current question and of every
\* question after it are eliminated.
use_fifty_onwards(ql) ==
    IF ql.fifty_used THEN {Outcome(ql, "return", -1, -1)}
    ELSE LET used == [ql EXCEPT !.fifty_used = TRUE]
             cur == get_current_question(used)
         IN IF cur = -1 THEN {Victory(used)}
            ELSE {Outcome([used EXCEPT !.questions =
                             [k \in DOMAIN @ |->
                                IF k >= cur + 1 THEN Question_use_fifty(@[k])
                                ELSE @[k]]],
                          "FiftyException", cur, -1)}

\* QuestionList.use_fifty
use_fifty(ql) ==
    IF ql.fifty_used THEN {Outcome(ql, "return", -1, -1)}
    ELSE LET used == [ql EXCEPT !.fifty_used = TRUE]
             cur == get_current_question(used)
         IN IF cur = -1 THEN {Victory(used)}
            ELSE {Outcome([used EXCEPT !.questions[cur + 1] =
                                           Question_use_fifty(@)],
                          "FiftyException", cur, -1)}

\* Variant of use_phone: the signal is raised before the question stores a
\* suggestion.
use_phone_raises_first(ql) ==
    IF ql.phone_used THEN {Outcome(ql, "return", -1, -1)}
    ELSE LET used == [ql EXCEPT !.phone_used = TRUE]
             cur == get_current_question(used)
         IN IF cur = -1 THEN {Victory(used)}
            ELSE {Outcome(used, "PhoneException", cur, -1)}

\* QuestionList.use_phone
use_phone(ql) ==
    IF ql.phone_used THEN {Outcome(ql, "return", -1, -1)}
    ELSE LET used == [ql EXCEPT !.phone_used = TRUE]
             cur == get_current_question(used)
         IN IF cur = -1 THEN {Victory(used)}
            ELSE {Outcome([used EXCEPT !.questions[cur + 1] = q],
                          "PhoneException", cur, -1) :
                    q \in Question_use_phone(At(used.questions, cur))}

\* Variant of use_public: no test of the flag.
use_public_unguarded(ql) ==
    LET used == [ql EXCEPT !.public_used = TRUE]
        cur == get_current_question(used)
    IN IF cur = -1 THEN {Victory(used)}
       ELSE {Outcome([used EXCEPT !.questions[cur + 1] = q],
                     "PublicException", cur, -1) :
               q \in Question_use_public(At(used.questions, cur))}

\* QuestionList.use_public
use_public(ql) ==
    IF ql.public_used THEN {Outcome(ql, "return", -1, -1)}
    ELSE LET used == [ql EXCEPT !.public_used = TRUE]
             cur == get_current_question(used)
         IN IF cur = -1 THEN {Victory(used)}
            ELSE {Outcome([used EXCEPT !.questions[cur + 1] = q],
                          "PublicException", cur, -1) :
                    q \in Question_use_public(At(used.questions, cur))}

\* -------------------------------------------------------------------- pages
\* Elapsed time is counted in half seconds, so that the 2.5 s of the start-up
\* page is a whole number.  The other budgets are written in seconds, as in
\* the code.
HalfSeconds(s) == 2 * s

STARTUP_WAIT == 5
LOGO_DELAY == 5
LOGO_DURATION == 2
GOOD_WAIT == 4
BAD_WAIT == 8
FIFTY_WAIT == 4
PHONE_WAIT == 5
PUBLIC_WAIT == 8
VICTORY_WAIT == 10

\* A page object: its class, the question and answer it was built with (a
\* position in the list, -1 for none), the time elapsed since start_time as
\* of the last frame, and the flag of the start-up page.  The highlighted
\* answer and the surfaces are drawing state and are left out.
NewPage(kind, question, answer) ==
    [kind |-> kind, question |-> question, answer |-> answer, age |-> 0,
     animate_to_question |-> FALSE]

\* No Game object: the QuestionList is driven on its own.
NoPage == NewPage("none", -1, -1)

StartUpPage == NewPage("StartUpPage", -1, -1)

VictoryPage == NewPage("VictoryPage", -1, -1)

GoodAnswerPage(question, answer) == NewPage("GoodAnswerPage", question, answer)

BadAnswerPage(question, answer) == NewPage("BadAnswerPage", question, answer)

FiftyPage(question) == NewPage("FiftyPage", question, -1)

PhonePage(question) == NewPage("PhonePage", question, -1)

PublicPage(question) == NewPage("PublicPage", question, -1)

\* QuestionPage.__init__: the page, or no page when get_current_question
\* raises VictoryException.
QuestionPage(ql) ==
    LET q == get_current_question(ql) IN
    IF q = -1 THEN {} ELSE {NewPage("QuestionPage", q, -1)}

\* ------------------------------------------------------------------- events
KEYS == {"K_a", "K_b", "K_c", "K_d", "K_SPACE", "K_ESCAPE", "K_x"}

ANSWER_KEYS == <<"K_a", "K_b", "K_c", "K_d">>

MouseButtons == {1, 3}

\* Where pygame.mouse.get_pos() is when the event is handled: in the rectangle
\* of an answer, of a lifeline button (in the order of self.buttons: fifty,
\* phone, public), or in none of them.
Nowhere == [over |-> "nothing", i |-> 0]

MousePositions ==
    {[over |-> "answer", i |-> i] : i \in Idx}
    \cup {[over |-> "button", i |-> i] : i \in 0..2}
    \cup {Nowhere}

Events ==
    {[type |-> "QUIT", key |-> "", button |-> 0, pos |-> Nowhere],
     [type |-> "MOUSEMOTION", key |-> "", button |-> 0, pos |-> Nowhere]}
    \cup {[type |-> "KEYDOWN", key |-> k, button |-> 0, pos |-> Nowhere] :
            k \in KEYS}
    \cup {[type |-> "MOUSEBUTTONDOWN", key |-> "", button |-> b, pos |-> p] :
            b \in MouseButtons, p \in MousePositions}

\* What handling an event ends with: the page and the QuestionList as the
\* handler left them, and the exception raised ("return" for none).
Handled(page, ql, exc, question, answer) ==
    [page |-> page, ql |-> ql, exc |-> exc, question |-> question,
     answer |-> answer]

Returned(page, ql) == Handled(page, ql, "return", -1, -1)

FromCall(page, o) == Handled(page, o.ql, o.exc, o.question, o.answer)

\* The end of the intro animation of the start-up page: past it the elapsed
\* time changes nothing more on that page.
IntroEnd == LOGO_DELAY + HalfSeconds(LOGO_DURATION)

\* Variant of StartUpPage.handle_event: the events that arrive before the
\* end of the intro animation are ignored.
StartUpPage_handle_event_after_intro(page, ql, event) ==
    LET clicked ==
            IF ~page.animate_to_question /\ event.type = "MOUSEBUTTONDOWN"
            THEN [page EXCEPT !.animate_to_question = TRUE, !.age = 0]
            ELSE page
    IN IF ~page.animate_to_question /\ page.age < IntroEnd
       THEN {Returned(page, ql)}
       ELSE IF event.type = "KEYDOWN" /\ event.key = "K_SPACE"
       THEN {Handled(clicked, ql, "BackToQuestionException", -1, -1)}
       ELSE {Returned(clicked, ql)}

\* Variant of StartUpPage.handle_event: every click sets start_time, also
\* during the animation.
StartUpPage_handle_event_restarts(page, ql, event) ==
    LET clicked ==
            IF event.type = "MOUSEBUTTONDOWN"
            THEN [page EXCEPT !.animate_to_question = TRUE, !.age = 0]
            ELSE page
    IN IF event.type = "KEYDOWN" /\ event.key = "K_SPACE"
       THEN {Handled(clicked, ql, "BackToQuestionException", -1, -1)}
       ELSE {Returned(clicked, ql)}

\* StartUpPage.handle_event
StartUpPage_handle_event(page, ql, event) ==
    LET clicked ==
            IF ~page.animate_to_question /\ event.type = "MOUSEBUTTONDOWN"
            THEN [page EXCEPT !.animate_to_question = TRUE, !.age = 0]
            ELSE page
    IN IF event.type = "KEYDOWN" /\ event.key = "K_SPACE"
       THEN {Handled(clicked, ql, "BackToQuestionException", -1, -1)}
       ELSE {Returned(clicked, ql)}

\* Variant of KeyIndex: a key that is not in ANSWER_KEYS counts as the first
\* answer key.
KeyIndex_default_first(key) ==
    IF \E i \in Idx : At(ANSWER_KEYS, i) = key
    THEN CHOOSE i \in Idx : At(ANSWER_KEYS, i) = key
    ELSE 0

\* ANSWER_KEYS.index(key), -1 for ValueError.
KeyIndex(key) ==
    IF \E i \in Idx : At(ANSWER_KEYS, i) = key
    THEN CHOOSE i \in Idx : At(ANSWER_KEYS, i) = key
    ELSE -1

\* QuestionPage.handle_key
handle_key(page, ql, key) ==
    LET answer == KeyIndex(key) IN
    IF answer = -1 THEN {Returned(page, ql)}
    ELSE {FromCall(page, validate_answer(ql, answer))}

\* self.buttons: the action and the used() test of each lifeline button.
ButtonUsed(ql, b) ==
    CASE b = 0 -> ql.fifty_used
      [] b = 1 -> ql.phone_used
      [] OTHER -> ql.public_used

ButtonAction(ql, b) ==
    CASE b = 0 -> use_fifty(ql)
      [] b = 1 -> use_phone(ql)
      [] OTHER -> use_public(ql)

\* QuestionPage.handle_mouse_button_down
handle_mouse_button_down(page, ql, pos) ==
    IF pos.over = "answer"
    THEN {FromCall(page, validate_answer(ql, pos.i))}
    ELSE IF pos.over = "button" /\ ~ButtonUsed(ql, pos.i)
    THEN {FromCall(page, o) : o \in ButtonAction(ql, pos.i)}
    ELSE {Returned(page, ql)}

\* QuestionPage.handle_event
QuestionPage_handle_event(page, ql, event) ==
    CASE event.type = "KEYDOWN" -> handle_key(page, ql, event.key)
      [] event.type = "MOUSEBUTTONDOWN" ->
            handle_mouse_button_down(page, ql, event.pos)
      [] OTHER -> {Returned(page, ql)}

\* Variant of PageException: BadAnswerPage keeps the default exception of
\* GoodAnswerPage.
PageException_default(page) == "BackToQuestionException"

\* self.exception of GoodAnswerPage and BadAnswerPage.
PageException(page) ==
    IF page.kind = "BadAnswerPage" THEN "StartupException"
    ELSE "BackToQuestionException"

\* GoodAnswerPage.handle_event, inherited by BadAnswerPage.
GoodAnswerPage_handle_event(page, ql, event) ==
    LET go_back ==
            \/ event.type = "KEYDOWN" /\ event.key = "K_SPACE"
            \/ event.type = "MOUSEBUTTONDOWN" /\ event.button = 3
    IN IF go_back THEN {Handled(page, ql, PageException(page), -1, -1)}
       ELSE {Returned(page, ql)}

\* Variant of handle_event: the reveal pages and the Victory page take the
\* handler of GoodAnswerPage.
handle_event_all_skippable(page, ql, event) ==
    CASE page.kind = "StartUpPage" -> StartUpPage_handle_event(page, ql, event)
      [] page.kind = "QuestionPage" ->
            QuestionPage_handle_event(page, ql, event)
      [] OTHER -> GoodAnswerPage_handle_event(page, ql, event)

\* current_page.handle_event(event)
handle_event(page, ql, event) ==
    CASE page.kind = "StartUpPage" -> StartUpPage_handle_event(page, ql, event)
      [] page.kind = "QuestionPage" ->
            QuestionPage_handle_event(page, ql, event)
      [] page.kind \in {"GoodAnswerPage", "BadAnswerPage"} ->
            GoodAnswerPage_handle_event(page, ql, event)
      [] OTHER -> {Returned(page, ql)}

\* time_to_wait of each page class, in half seconds.
TimeToWait(page) ==
    CASE page.kind = "StartUpPage" -> STARTUP_WAIT
      [] page.kind = "GoodAnswerPage" -> HalfSeconds(GOOD_WAIT)
      [] page.kind = "BadAnswerPage" -> HalfSeconds(BAD_WAIT)
      [] page.kind = "FiftyPage" -> HalfSeconds(FIFTY_WAIT)
      [] page.kind = "PhonePage" -> HalfSeconds(PHONE_WAIT)
      [] page.kind = "PublicPage" -> HalfSeconds(PUBLIC_WAIT)
      [] OTHER -> HalfSeconds(VICTORY_WAIT)

\* Variant of draw: a page is left as soon as the elapsed time reaches its
\* time_to_wait.
draw_at_budget(page) ==
    CASE page.kind = "QuestionPage" -> "return"
      [] page.kind = "StartUpPage" ->
            IF page.animate_to_question /\ page.age >= TimeToWait(page)
            THEN "BackToQuestionException" ELSE "return"
      [] page.kind \in {"GoodAnswerPage", "BadAnswerPage"} ->
            IF page.age >= TimeToWait(page) THEN PageException(page)
            ELSE "return"
      [] page.kind \in {"FiftyPage", "PhonePage", "PublicPage"} ->
            IF page.age >= TimeToWait(page) THEN "BackToQuestionException"
            ELSE "return"
      [] OTHER ->
            IF page.age >= TimeToWait(page) THEN "StartupException"
            ELSE "return"

\* Variant of draw: the Startup page counts its time_to_wait from the start,
\* whether or not a click started the transition.
draw_startup_times_out(page) ==
    CASE page.kind = "QuestionPage" -> "return"
      [] page.kind = "StartUpPage" ->
            IF page.age > TimeToWait(page)
            THEN "BackToQuestionException" ELSE "return"
      [] page.kind \in {"GoodAnswerPage", "BadAnswerPage"} ->
            IF page.age > TimeToWait(page) THEN PageException(page)
            ELSE "return"
      [] page.kind \in {"FiftyPage", "PhonePage", "PublicPage"} ->
            IF page.age > TimeToWait(page) THEN "BackToQuestionException"
            ELSE "return"
      [] OTHER ->
            IF page.age > TimeToWait(page) THEN "StartupException"
            ELSE "return"

\* current_page.draw(screen, cur_time, dt): the exception raised, "return"
\* when the page is drawn.
draw(page) ==
    CASE page.kind = "QuestionPage" -> "return"
      [] page.kind = "StartUpPage" ->
            IF page.animate_to_question /\ page.age > TimeToWait(page)
            THEN "BackToQuestionException" ELSE "return"
      [] page.kind \in {"GoodAnswerPage", "BadAnswerPage"} ->
            IF page.age > TimeToWait(page) THEN PageException(page)
            ELSE "return"
      [] page.kind \in {"FiftyPage", "PhonePage", "PublicPage"} ->
            IF page.age > TimeToWait(page) THEN "BackToQuestionException"
            ELSE "return"
      [] OTHER ->
            IF page.age > TimeToWait(page) THEN "StartupException"
            ELSE "return"

\* Variant of Elapse: the frames are given a time that does not advance.
Elapse_frozen(page, dt) == page

\* cur_time - start_time, dt half seconds after the last frame.  The question
\* page keeps no start_time.
Elapse(page, dt) ==
    CASE page.kind = "QuestionPage" -> page
      [] page.kind = "StartUpPage" /\ ~page.animate_to_question ->
            [page EXCEPT !.age = Min(@ + dt, IntroEnd)]
      [] OTHER -> [page EXCEPT !.age = @ + dt]

\* --------------------------------------------------- calls on QuestionList
SetQL(ql) ==
    /\ questions' = ql.questions
    /\ current_question' = ql.current_question
    /\ fifty_used' = ql.fifty_used
    /\ phone_used' = ql.phone_used
    /\ public_used' = ql.public_used

RevealSignals == {"FiftyException", "PhoneException", "PublicException"}

NoReveals == [l \in RevealSignals |-> 0]

\* History: no GoodAnswerException, no VictoryException yet.
NoneReceived == [good |-> 0, victory |-> 0, streak |-> 0]

\* No call of Question.__init__ is in progress.
NoBuilding == [at |-> "none"]

\* History: Game.step has not been called yet.
NoFrame == [dispatched |-> 0, drawn |-> FALSE, caught |-> 0]

Count(exc) ==
    IF exc \in RevealSignals
    THEN [reveals EXCEPT ![exc] = Min(@ + 1, MaxReveals)]
    ELSE reveals

Raise(o) ==
    /\ SetQL(o.ql)
    /\ signal' = [exc |-> o.exc, question |-> o.question, answer |-> o.answer]
    /\ reveals' = Count(o.exc)

CallValidateAnswer(answer) ==
    /\ Raise(validate_answer(QL, answer))
    /\ UNCHANGED <<yaml, grain, current_page, running, received, frame,
                   building>>

CallUseFifty ==
    /\ \E o \in use_fifty(QL) : Raise(o)
    /\ UNCHANGED <<yaml, grain, current_page, running, received, frame,
                   building>>

CallUsePhone ==
    /\ \E o \in use_phone(QL) : Raise(o)
    /\ UNCHANGED <<yaml, grain, current_page, running, received, frame,
                   building>>

CallUsePublic ==
    /\ \E o \in use_public(QL) : Raise(o)
    /\ UNCHANGED <<yaml, grain, current_page, running, received, frame,
                   building>>

CallGetCurrentQuestion ==
    /\ LET cur == get_current_question(QL) IN
         signal' = IF cur = -1
                   THEN [exc |-> "VictoryException", question |-> -1, answer |-> -1]
                   ELSE [exc |-> "return", question |-> cur, answer |-> -1]
    /\ UNCHANGED <<yaml, grain, questions, current_question, fifty_used,
                   phone_used, public_used, reveals, current_page, running,
                   received, frame, building>>

CallReset ==
    /\ \E ql \in reset(QL, yaml) : SetQL(ql)
    /\ signal' = NoSignal
    /\ reveals' = NoReveals
    /\ UNCHANGED <<yaml, grain, current_page, running, received, frame,
                   building>>

\* QuestionList.__init__
QuestionList_init(data) ==
    /\ yaml = data
    /\ \E ql \in reset([questions |-> <<>>, current_question |-> 0,
                        fifty_used |-> FALSE, phone_used |-> FALSE,
                        public_used |-> FALSE], data) :
          /\ questions = ql.questions
          /\ current_question = ql.current_question
          /\ fifty_used = ql.fifty_used
          /\ phone_used = ql.phone_used
          /\ public_used = ql.public_used
    /\ signal = NoSignal
    /\ reveals = NoReveals

\* A session on the file of two records, every call in any order.
QuizInit ==
    /\ grain = 0
    /\ QuestionList_init(SessionFile)
    /\ current_page = NoPage
    /\ running = FALSE
    /\ received = NoneReceived
    /\ frame = NoFrame
    /\ building = NoBuilding

QuizNext ==
    \/ \E answer \in Idx : CallValidateAnswer(answer)
    \/ CallUseFifty
    \/ CallUsePhone
    \/ CallUsePublic
    \/ CallGetCurrentQuestion
    \/ CallReset

SpecQuiz == QuizInit /\ [][QuizNext]_vars

\* The three lifelines on one question built from any record, at the finest
\* resolution of the random source.
LifelinesInit ==
    /\ grain = RandGrain
    /\ \E data \in OneRecordFiles : QuestionList_init(data)
    /\ current_page = NoPage
    /\ running = FALSE
    /\ received = NoneReceived
    /\ frame = NoFrame
    /\ building = NoBuilding

LifelinesNext ==
    \/ CallUseFifty
    \/ CallUsePhone
    \/ CallUsePublic

SpecLifelines == LifelinesInit /\ [][LifelinesNext]_vars

\* -------------------------------------------------------------------- Game
\* The batches pygame.event.get() may return in one frame.
Batches == UNION {[1..n -> Events] : n \in 0..MaxBatch}

\* Variant of handle_events: an exception of a handler is kept until the
\* whole batch has been dispatched to the page, and raised then.
RECURSIVE handle_events_keeps_dispatching(_, _, _)
handle_events_keeps_dispatching(page, ql, batch) ==
    IF batch = <<>>
    THEN {[handled |-> Returned(page, ql), proceed |-> TRUE, dispatched |-> 0]}
    ELSE LET event == Head(batch) IN
         IF \/ event.type = "QUIT"
            \/ event.type = "KEYDOWN" /\ event.key = "K_ESCAPE"
         THEN {[handled |-> Returned(page, ql), proceed |-> FALSE,
                dispatched |-> 0]}
         ELSE UNION {
                {IF h.exc = "return"
                 THEN [r EXCEPT !.dispatched = @ + 1]
                 ELSE [handled |-> [h EXCEPT !.page = r.handled.page,
                                             !.ql = r.handled.ql],
                       proceed |-> r.proceed,
                       dispatched |-> r.dispatched + 1] :
                   r \in handle_events_keeps_dispatching(h.page, h.ql,
                                                         Tail(batch))} :
                h \in handle_event(page, ql, event)}

\* Variant of handle_events: a request to quit is honoured once the whole
\* batch has been dispatched.
RECURSIVE handle_events_quit_after_batch(_, _, _)
handle_events_quit_after_batch(page, ql, batch) ==
    IF batch = <<>>
    THEN {[handled |-> Returned(page, ql), proceed |-> TRUE, dispatched |-> 0]}
    ELSE LET event == Head(batch) IN
         IF \/ event.type = "QUIT"
            \/ event.type = "KEYDOWN" /\ event.key = "K_ESCAPE"
         THEN {IF r.handled.exc = "return" THEN [r EXCEPT !.proceed = FALSE]
               ELSE r :
                 r \in handle_events_quit_after_batch(page, ql, Tail(batch))}
         ELSE UNION {IF h.exc = "return"
                     THEN {[r EXCEPT !.dispatched = @ + 1] :
                             r \in handle_events_quit_after_batch(
                                      h.page, h.ql, Tail(batch))}
                     ELSE {[handled |-> h, proceed |-> TRUE,
                            dispatched |-> 1]} :
                       h \in handle_event(page, ql, event)}

\* Game.handle_events: the events of the batch are dispatched in order until
\* one asks to quit (proceed = FALSE) or a handler raises; dispatched counts
\* the calls of current_page.handle_event.
RECURSIVE handle_events(_, _, _)
handle_events(page, ql, batch) ==
    IF batch = <<>>
    THEN {[handled |-> Returned(page, ql), proceed |-> TRUE, dispatched |-> 0]}
    ELSE LET event == Head(batch) IN
         IF \/ event.type = "QUIT"
            \/ event.type = "KEYDOWN" /\ event.key = "K_ESCAPE"
         THEN {[handled |-> Returned(page, ql), proceed |-> FALSE,
                dispatched |-> 0]}
         ELSE UNION {IF h.exc = "return"
                     THEN {[r EXCEPT !.dispatched = @ + 1] :
                             r \in handle_events(h.page, h.ql, Tail(batch))}
                     ELSE {[handled |-> h, proceed |-> TRUE,
                            dispatched |-> 1]} :
                       h \in handle_event(page, ql, event)}

\* What an except clause of Game.step ends with: the page assigned to
\* current_page, the QuestionList, and the number of exceptions caught.
Caught(page, ql, n) == [page |-> page, ql |-> ql, caught |-> n]

\* Variant of Catch: StartupException opens the start-up page without the
\* call of self.reset().
Catch_no_reset(ql, exc, question, answer) ==
    CASE exc = "StartupException" -> {Caught(StartUpPage, ql, 1)}
      [] exc = "BackToQuestionException" ->
            IF QuestionPage(ql) = {}
            THEN {Caught(VictoryPage, ql, 2)}
            ELSE {Caught(p, ql, 1) : p \in QuestionPage(ql)}
      [] exc = "VictoryException" -> {Caught(VictoryPage, ql, 1)}
      [] exc = "GoodAnswerException" ->
            {Caught(GoodAnswerPage(question, answer), ql, 1)}
      [] exc = "BadAnswerException" ->
            {Caught(BadAnswerPage(question, answer), ql, 1)}
      [] exc = "FiftyException" -> {Caught(FiftyPage(question), ql, 1)}
      [] exc = "PhoneException" -> {Caught(PhonePage(question), ql, 1)}
      [] OTHER -> {Caught(PublicPage(question), ql, 1)}

\* Variant of Catch: the victory found while opening the Question page also
\* resets the questions.
Catch_victory_resets(ql, exc, question, answer) ==
    CASE exc = "StartupException" ->
            {Caught(StartUpPage, fresh, 1) :
                fresh \in reset(ql, yaml)}
      [] exc = "BackToQuestionException" ->
            IF QuestionPage(ql) = {}
            THEN {Caught(VictoryPage, fresh, 2) : fresh \in reset(ql, yaml)}
            ELSE {Caught(p, ql, 1) : p \in QuestionPage(ql)}
      [] exc = "VictoryException" -> {Caught(VictoryPage, ql, 1)}
      [] exc = "GoodAnswerException" ->
            {Caught(GoodAnswerPage(question, answer), ql, 1)}
      [] exc = "BadAnswerException" ->
            {Caught(BadAnswerPage(question, answer), ql, 1)}
      [] exc = "FiftyException" -> {Caught(FiftyPage(question), ql, 1)}
      [] exc = "PhoneException" -> {Caught(PhonePage(question), ql, 1)}
      [] OTHER -> {Caught(PublicPage(question), ql, 1)}

\* Variant of Catch: no inner try around the construction of the Question
\* page, so that its VictoryException leaves step uncaught.
Catch_no_inner_try(ql, exc, question, answer) ==
    CASE exc = "StartupException" ->
            {Caught(StartUpPage, fresh, 1) :
                fresh \in reset(ql, yaml)}
      [] exc = "BackToQuestionException" ->
            {Caught(p, ql, 1) : p \in QuestionPage(ql)}
      [] exc = "VictoryException" -> {Caught(VictoryPage, ql, 1)}
      [] exc = "GoodAnswerException" ->
            {Caught(GoodAnswerPage(question, answer), ql, 1)}
      [] exc = "BadAnswerException" ->
            {Caught(BadAnswerPage(question, answer), ql, 1)}
      [] exc = "FiftyException" -> {Caught(FiftyPage(question), ql, 1)}
      [] exc = "PhoneException" -> {Caught(PhonePage(question), ql, 1)}
      [] OTHER -> {Caught(PublicPage(question), ql, 1)}

\* The except clauses of Game.step: the page and the QuestionList the handler
\* of the exception leaves, and the number of exceptions caught on the way
\* (2 when QuestionPage.__init__ raises VictoryException in the inner try).
Catch(ql, exc, question, answer) ==
    CASE exc = "StartupException" ->
            {Caught(StartUpPage, fresh, 1) :
                fresh \in reset(ql, yaml)}
      [] exc = "BackToQuestionException" ->
            IF QuestionPage(ql) = {}
            THEN {Caught(VictoryPage, ql, 2)}
            ELSE {Caught(p, ql, 1) : p \in QuestionPage(ql)}
      [] exc = "VictoryException" -> {Caught(VictoryPage, ql, 1)}
      [] exc = "GoodAnswerException" ->
            {Caught(GoodAnswerPage(question, answer), ql, 1)}
      [] exc = "BadAnswerException" ->
            {Caught(BadAnswerPage(question, answer), ql, 1)}
      [] exc = "FiftyException" -> {Caught(FiftyPage(question), ql, 1)}
      [] exc = "PhoneException" -> {Caught(PhonePage(question), ql, 1)}
      [] OTHER -> {Caught(PublicPage(question), ql, 1)}

\* History: the counts after Game.step has caught exc.  VictoryException
\* reaches step from a handler, or from QuestionPage.__init__ inside the
\* clause of BackToQuestionException.
Receive(ql, exc) ==
    CASE exc = "StartupException" -> NoneReceived
      [] exc = "GoodAnswerException" ->
            [received EXCEPT !.good = Min(@ + 1, MaxSignals),
                             !.streak = Min(@ + 1, MaxSignals)]
      [] exc = "BadAnswerException" -> [received EXCEPT !.streak = 0]
      [] \/ exc = "VictoryException"
         \/ exc = "BackToQuestionException" /\ QuestionPage(ql) = {} ->
            [received EXCEPT !.victory = Min(@ + 1, MaxSignals)]
      [] OTHER -> received

\* Game.step, called by the loop of main with the events of the frame, dt
\* half seconds after the previous frame.
step(batch, dt) ==
    /\ running
    /\ \E r \in handle_events(Elapse(current_page, dt), QL, batch) :
         LET h == r.handled
             exc == IF h.exc # "return" THEN h.exc ELSE draw(h.page)
         IN IF ~r.proceed
            THEN /\ running' = FALSE
                 /\ current_page' = h.page
                 /\ SetQL(h.ql)
                 /\ signal' = NoSignal
                 /\ reveals' = reveals
                 /\ received' = received
                 /\ frame' = [dispatched |-> r.dispatched, drawn |-> FALSE,
                              caught |-> 0]
            ELSE IF exc = "return"
            THEN /\ running' = TRUE
                 /\ current_page' = h.page
                 /\ SetQL(h.ql)
                 /\ signal' = NoSignal
                 /\ reveals' = reveals
                 /\ received' = received
                 /\ frame' = [dispatched |-> r.dispatched, drawn |-> TRUE,
                              caught |-> 0]
            ELSE /\ running' = TRUE
                 /\ \E c \in Catch(h.ql, exc, h.question, h.answer) :
                      /\ current_page' = c.page
                      /\ SetQL(c.ql)
                      /\ frame' = [dispatched |-> r.dispatched,
                                   drawn |-> h.exc = "return",
                                   caught |-> c.caught]
                 /\ signal' = [exc |-> exc, question |-> h.question,
                               answer |-> h.answer]
                 /\ reveals' = IF exc = "StartupException" THEN NoReveals
                               ELSE Count(exc)
                 /\ received' = Receive(h.ql, exc)
    /\ UNCHANGED <<yaml, grain, building>>

\* Game.__init__
Game_init(data) ==
    /\ QuestionList_init(data)
    /\ current_page = StartUpPage
    /\ running = TRUE
    /\ received = NoneReceived
    /\ frame = NoFrame
    /\ building = NoBuilding

\* The game on the file of one record, with every batch of events and every
\* frame time.
Init ==
    /\ grain = 0
    /\ Game_init(GameFile)

\* The loop of main: one step per frame until step returns True.
Next == \E batch \in Batches, dt \in 0..MaxTick : step(batch, dt)

Spec == Init /\ [][Next]_vars

\* The events of a player who never asks to quit.
LiveEvents ==
    {e \in Events : ~(\/ e.type = "QUIT"
                      \/ e.type = "KEYDOWN" /\ e.key = "K_ESCAPE")}

LiveBatches == UNION {[1..n -> LiveEvents] : n \in 0..MaxBatch}

LiveNext == \E batch \in LiveBatches, dt \in 0..MaxTick : step(batch, dt)

\* A frame that comes after time() has advanced.
Advance == \E batch \in LiveBatches, dt \in 1..MaxTick : step(batch, dt)

\* The loop of main never stops calling step while no quit is asked, and
\* time() advances between the frames.
SpecLive == Init /\ [][LiveNext]_vars /\ WF_vars(Advance)

\* A pause longer than the budget of every page.
LongPause == HalfSeconds(VICTORY_WAIT) + 1

\* Frames that come at once or after a long pause.
SessionTicks == {0, LongPause}

\* The events of a player who, of the three lifelines, only ever clicks the
\* fifty-fifty button.
SessionEvents ==
    {e \in Events : ~(/\ e.type = "MOUSEBUTTONDOWN"
                      /\ e.pos.over = "button"
                      /\ e.pos.i # 0)}

SessionBatches == UNION {[1..n -> SessionEvents] : n \in 0..MaxBatch}

\* The game on the file of two records.
SessionInit ==
    /\ grain = 0
    /\ Game_init(SessionFile)

SessionNext ==
    \E batch \in SessionBatches, dt \in SessionTicks : step(batch, dt)

SpecSession == SessionInit /\ [][SessionNext]_vars

\* A file of three records alike, each well formed: a session of three
\* questions.
ThreeRecordFile ==
    <<YamlRecord(1, {2}), YamlRecord(1, {2}), YamlRecord(1, {2})>>

\* The events of a player who clicks no lifeline button.
HappyEvents ==
    {e \in Events : ~(e.type = "MOUSEBUTTONDOWN" /\ e.pos.over = "button")}

HappyBatches == UNION {[1..n -> HappyEvents] : n \in 0..MaxBatch}

\* The game on the file of three records.
HappyInit ==
    /\ grain = 0
    /\ Game_init(ThreeRecordFile)

HappyNext ==
    \E batch \in HappyBatches, dt \in SessionTicks : step(batch, dt)

SpecHappy == HappyInit /\ [][HappyNext]_vars

\* Frames that deliver up to two events: the key of the right answer and of
\* a wrong one, the space key, the escape key, a click on a lifeline button,
\* a mouse move, a request to quit.
DispatchEvents ==
    {e \in Events :
        \/ e.type \in {"QUIT", "MOUSEMOTION"}
        \/ /\ e.type = "KEYDOWN"
           /\ e.key \in {"K_a", "K_c", "K_SPACE", "K_ESCAPE"}
        \/ /\ e.type = "MOUSEBUTTONDOWN" /\ e.button = 1
           /\ e.pos.over = "button"}

DispatchBatches == UNION {[1..n -> DispatchEvents] : n \in 0..2}

DispatchNext ==
    \E batch \in DispatchBatches, dt \in SessionTicks : step(batch, dt)

\* The game on the file of one record, with frames of up to two events.
SpecDispatch == Init /\ [][DispatchNext]_vars

\* The events of a player who answers with the keys A and C, presses the
\* space key and clicks the three lifeline buttons.
RevealEvents ==
    {e \in Events :
        \/ e.type = "KEYDOWN" /\ e.key \in {"K_a", "K_c", "K_SPACE"}
        \/ /\ e.type = "MOUSEBUTTONDOWN" /\ e.button = 1
           /\ e.pos.over = "button"}

RevealBatches == UNION {[1..n -> RevealEvents] : n \in 0..MaxBatch}

RevealNext ==
    \E batch \in RevealBatches, dt \in SessionTicks : step(batch, dt)

\* The game on the file of two records, with the three lifelines.
SpecReveal == SessionInit /\ [][RevealNext]_vars

\* ------------------------------------------------ Question.__init__ by steps
\* The locals of Question.__init__ on entry of its "for" loop.
Question_init_entry(data) ==
    [data |-> data, at |-> "for", i |-> 0, answers |-> <<>>,
     correct_answer |-> 0, fifty_fifty |-> {}]

\* The object a finished construction leaves.
Question_built(b) ==
    [text |-> b.data.question,
     answers |-> [i \in Idx |-> b.answers[i + 1]],
     display_answers |-> [i \in Idx |-> b.answers[i + 1]],
     correct_answer |-> b.correct_answer,
     fifty_fifty |-> b.fifty_fifty,
     phone |-> <<>>,
     public |-> <<>>]

\* One iteration of "for i, choice in iterator" (choices in file order).
ForChoice ==
    /\ building.at = "for"
    /\ LET i == building.i
           choice == building.data.choices[i]
       IN building' =
            [building EXCEPT
               !.answers = Append(@, Str(choice.txt)),
               !.correct_answer = IF choice.correct THEN i ELSE @,
               !.fifty_fifty = IF choice.correct THEN @ \cup {i} ELSE @,
               !.i = i + 1,
               !.at = IF i = 3 THEN "while" ELSE "for"]
    /\ UNCHANGED <<yaml, grain, questions, current_question, fifty_used,
                   phone_used, public_used, signal, reveals, current_page,
                   running, received, frame>>

\* One iteration of "while len(self.fifty_fifty) != 2".
WhileFifty ==
    /\ building.at = "while"
    /\ Cardinality(building.fifty_fifty) # 2
    /\ \E r \in randint(0, 100) :
         building' = [building EXCEPT !.fifty_fifty = @ \cup {r % 4}]
    /\ UNCHANGED <<yaml, grain, questions, current_question, fifty_used,
                   phone_used, public_used, signal, reveals, current_page,
                   running, received, frame>>

\* The loop condition fails: display_answers is copied and __init__ returns.
Built ==
    /\ building.at = "while"
    /\ Cardinality(building.fifty_fifty) = 2
    /\ building' = [building EXCEPT !.at = "built"]
    /\ questions' = <<Question_built(building)>>
    /\ UNCHANGED <<yaml, grain, current_question, fifty_used, phone_used,
                   public_used, signal, reveals, current_page, running,
                   received, frame>>

\* Construction of the Question of a one-record file, whatever set of its
\* choices is flagged.
BuildInit ==
    /\ yaml \in OneRecordFiles
    /\ grain = 0
    /\ building = Question_init_entry(At(yaml, 0))
    /\ questions = <<>>
    /\ current_question = 0
    /\ fifty_used = FALSE
    /\ phone_used = FALSE
    /\ public_used = FALSE
    /\ signal = NoSignal
    /\ reveals = NoReveals
    /\ current_page = NoPage
    /\ running = TRUE
    /\ received = NoneReceived
    /\ frame = NoFrame

BuildNext == ForChoice \/ WhileFifty \/ Built

SpecBuild == BuildInit /\ [][BuildNext]_vars

\* ================================================================= claims
Remaining(q) == {i \in Idx : q.display_answers[i] # ELIMINATED}

OnQuestion == current_question < Len(questions)

Current == At(questions, current_question)

QuizUnchanged ==
    UNCHANGED <<questions, current_question, fifty_used, phone_used,
                public_used>>

HasPublic(q) == q.public # <<>>

Others(q) == Idx \ {q.correct_answer}

\* C1: after use_fifty() has been applied to a question, exactly 2 of its 4
\* choices are non-eliminated and the choice at correct_answer is one of
\* them.  (SpecLifelines: one question, so the lifeline was applied to it
\* exactly when fifty_used holds.)
C1_FiftyKeepsCorrect ==
    fifty_used =>
        /\ Cardinality(Remaining(At(questions, 0))) = 2
        /\ At(questions, 0).correct_answer \in Remaining(At(questions, 0))

\* C2: validate_answer(i) on a choice i that the fifty-fifty lifeline has
\* eliminated on the current question is a no-op: no GoodAnswerException or
\* BadAnswerException, cursor (and the rest of the QuestionList) unchanged.
C2_EliminatedIsNoOp ==
    [][\A i \in Idx :
          (/\ OnQuestion
           /\ Current.display_answers[i] = ELIMINATED
           /\ CallValidateAnswer(i))
          => (signal'.exc = "return" /\ QuizUnchanged)]_vars

CallsGetCurrentQuestion ==
    \/ CallGetCurrentQuestion
    \/ \E i \in Idx : CallValidateAnswer(i)
    \/ ~fifty_used /\ CallUseFifty
    \/ ~phone_used /\ CallUsePhone
    \/ ~public_used /\ CallUsePublic

\* C5: with the cursor at len(questions), every call that reaches
\* get_current_question() raises VictoryException and yields no question;
\* with the cursor below, get_current_question() returns questions[cursor]
\* without raising.
C5_VictoryPastTheEnd ==
    [][/\ (current_question = Len(questions) /\ CallsGetCurrentQuestion)
            => (/\ signal'.exc = "VictoryException"
                /\ signal'.question = -1
                /\ current_question' = current_question
                /\ questions' = questions)
       /\ (OnQuestion /\ CallGetCurrentQuestion)
            => (signal' = [exc |-> "return", question |-> current_question,
                           answer |-> -1])]_vars

\* C5 witness: a lifeline was invoked for the first time with the cursor past
\* the end and VictoryException came out.
C5_Witness ==
    /\ current_question = Len(questions)
    /\ signal.exc = "VictoryException"
    /\ phone_used
    /\ \A k \in 1..Len(questions) : questions[k].phone = <<>>

\* C6: invoking a lifeline that is already used changes nothing of the
\* QuizState (flags, cursor, every question's labels, phone suggestion and
\* audience distribution), also on a later question: N > 1 invocations leave
\* the state of the first.
C6_LifelineIdempotent ==
    [][/\ (fifty_used /\ CallUseFifty) => QuizUnchanged
       /\ (phone_used /\ CallUsePhone) => QuizUnchanged
       /\ (public_used /\ CallUsePublic) => QuizUnchanged]_vars

\* C6 witness: the audience lifeline, used on the first question, was
\* invoked again on the second one (a used lifeline that returns is the
\* only call that ends with a plain return while a flag is set).
C6_Witness ==
    /\ public_used /\ ~fifty_used /\ ~phone_used
    /\ signal = NoSignal
    /\ current_question = 1
    /\ HasPublic(At(questions, 0))

\* C7: each lifeline raises its reveal signal at most once between two
\* resets: a second invocation of a used lifeline raises nothing.
C7_OneRevealPerSession ==
    \A l \in RevealSignals : reveals[l] <= 1

\* C7 witness: the fifty-fifty lifeline was revealed once and then invoked
\* again, which returned without a signal.
C7_Witness ==
    /\ reveals["FiftyException"] = 1
    /\ fifty_used /\ ~phone_used /\ ~public_used
    /\ signal = NoSignal

\* C8: after use_public() the 4 stored audience percentages sum to exactly
\* 100, with or without eliminated choices.
C8_AudienceSumsTo100 ==
    \A k \in 1..Len(questions) :
        HasPublic(questions[k]) => Sum4(questions[k].public) = 100

C10_CorrectShare40To90 ==
    \A k \in 1..Len(questions) :
        LET q == questions[k] IN
        (HasPublic(q) /\ Remaining(q) = Idx)
            => q.public[q.correct_answer] \in 40..90

\* C10 amended: without elimination the correct share is within 10..100.
C10_CorrectShare10To100 ==
    \A k \in 1..Len(questions) :
        LET q == questions[k] IN
        (HasPublic(q) /\ Remaining(q) = Idx)
            => q.public[q.correct_answer] \in 10..100

\* C10 witness: an audience vote without elimination that gave the whole
\* 100 percent to the correct choice.
C10_Witness ==
    \E k \in 1..Len(questions) :
        LET q == questions[k] IN
        /\ HasPublic(q) /\ Remaining(q) = Idx
        /\ q.public[q.correct_answer] = 100

\* C11: use_public() on a question whose two wrong choices the fifty-fifty
\* lifeline has already eliminated gives both eliminated choices a share of 0
\* and splits the whole 100 percent between the surviving correct choice and
\* the surviving incorrect choice.
C11_SurvivorsShareAll ==
    [][(/\ OnQuestion
        /\ fifty_used /\ ~public_used
        /\ Cardinality(Remaining(Current)) = 2
        /\ Current.correct_answer \in Remaining(Current)
        /\ CallUsePublic)
       => LET q == At(questions', current_question)
              left == Remaining(Current)
          IN /\ HasPublic(q)
             /\ \A i \in Idx \ left : q.public[i] = 0
             /\ \E c, w \in left :
                   /\ c = q.correct_answer /\ w # c
                   /\ q.public[c] + q.public[w] = 100]_vars

\* C11 witness: the audience was asked after the elimination of two wrong
\* choices and gave 90 to the correct choice and 10 to the other survivor.
C11_Witness ==
    /\ signal.exc = "PublicException"
    /\ fifty_used
    /\ LET q == At(questions, 0) IN
         /\ q.correct_answer \in Remaining(q)
         /\ q.public[q.correct_answer] = 90
         /\ \E w \in Remaining(q) : q.public[w] = 10

\* C12: in every reachable state, after any sequence of answers, lifelines
\* and resets, 0 <= current_question <= len(questions).
C12_CursorInRange ==
    /\ 0 <= current_question
    /\ current_question <= Len(questions)

\* C12 witness: the cursor stands at len(questions) after a call made past
\* the end, which raised VictoryException and moved nothing.
C12_Witness ==
    /\ current_question = Len(questions)
    /\ signal.exc = "VictoryException"

\* C13: each lifeline-used flag is monotonic within a session: a step that
\* takes a flag from true to false is a call of QuestionList.reset(); every
\* other operation (answers, wrong answers included, and the other
\* lifelines) keeps it.
C13_FlagsMonotonic ==
    [][(\/ fifty_used /\ ~fifty_used'
        \/ phone_used /\ ~phone_used'
        \/ public_used /\ ~public_used')
       => /\ CallReset
          /\ ~fifty_used' /\ ~phone_used' /\ ~public_used']_vars

\* C13 witness: a wrong answer has put the cursor back to 0 and the three
\* flags set before it are still set.
C13_Witness ==
    /\ signal.exc = "BadAnswerException"
    /\ signal.question > 0
    /\ fifty_used /\ phone_used /\ public_used

\* C14: the initial page is Startup and every change of the active page made
\* by Game.step follows one of the edges Startup->Question,
\* Question->CorrectAnswer, Question->WrongAnswer, Question->FiftyReveal,
\* Question->PhoneReveal, Question->AudienceReveal, CorrectAnswer->Question,
\* CorrectAnswer->Victory, Question->Victory, WrongAnswer->Startup,
\* FiftyReveal/PhoneReveal/AudienceReveal->Question, Victory->Startup.
PageEdges ==
    {<<"StartUpPage", "QuestionPage">>,
     <<"QuestionPage", "GoodAnswerPage">>,
     <<"QuestionPage", "BadAnswerPage">>,
     <<"QuestionPage", "FiftyPage">>,
     <<"QuestionPage", "PhonePage">>,
     <<"QuestionPage", "PublicPage">>,
     <<"GoodAnswerPage", "QuestionPage">>,
     <<"GoodAnswerPage", "VictoryPage">>,
     <<"QuestionPage", "VictoryPage">>,
     <<"BadAnswerPage", "StartUpPage">>,
     <<"FiftyPage", "QuestionPage">>,
     <<"PhonePage", "QuestionPage">>,
     <<"PublicPage", "QuestionPage">>,
     <<"VictoryPage", "StartUpPage">>}

Pristine(q) ==
    /\ q.display_answers = q.answers
    /\ \A i \in Idx : q.answers[i] # ELIMINATED
    /\ q.phone = <<>>
    /\ q.public = <<>>

\* C15: every transition to the Startup page resets the whole QuizState in
\* the same tick: when a tick ends with Startup newly active, the cursor is
\* 0, the three lifeline flags are false and no question of the reloaded
\* set carries an elimination mark, a friend suggestion or an audience
\* distribution.
C15_StartupResets ==
    [][(current_page'.kind = "StartUpPage"
        /\ current_page.kind # "StartUpPage")
       => /\ current_question' = 0
          /\ ~fifty_used' /\ ~phone_used' /\ ~public_used'
          /\ \A k \in 1..Len(questions') : Pristine(questions'[k])]_vars

\* C15 witness: Startup has just been entered through StartupException.
C15_Witness ==
    /\ current_page.kind = "StartUpPage"
    /\ signal.exc = "StartupException"
    /\ current_page.age = 0

NoLifelineUsed == ~fifty_used /\ ~phone_used /\ ~public_used

\* C16: after a wrong answer given at any cursor position the only way
\* forward is WrongAnswer -> Startup (timeout or skip) with a full reset:
\* the cursor is 0 while the WrongAnswer page is shown, the next Question
\* page is opened from Startup at cursor 0 with the three lifelines unused,
\* and position 1 is reached only by a correct answer to the question at
\* position 0.
C16_WrongAnswerRestarts ==
    [][/\ current_page.kind = "BadAnswerPage" => current_question = 0
       /\ (current_page.kind = "BadAnswerPage"
            /\ current_page'.kind # "BadAnswerPage")
          => /\ current_page'.kind = "StartUpPage"
             /\ signal'.exc = "StartupException"
             /\ current_question' = 0
             /\ NoLifelineUsed'
             /\ \A k \in 1..Len(questions') : Pristine(questions'[k])
       /\ (current_page.kind = "StartUpPage"
            /\ current_page'.kind # "StartUpPage")
          => /\ current_page'.kind = "QuestionPage"
             /\ current_page'.question = 0
             /\ current_question' = 0
             /\ NoLifelineUsed'
       /\ (current_question' = 1 /\ current_question # 1)
          => /\ current_question = 0
             /\ signal' = [exc |-> "GoodAnswerException", question |-> 0,
                           answer |-> At(questions, 0).correct_answer]
      ]_vars

\* C16 witness: the WrongAnswer page shows a wrong answer to the question at
\* position 1, given after the fifty-fifty lifeline was used.
C16_Witness ==
    /\ current_page.kind = "BadAnswerPage"
    /\ current_page.question = 1
    /\ fifty_used
    /\ current_question = 0

\* C17: in a session of 3 questions in which no lifeline is used and every
\* question is answered correctly in order, Game.step receives exactly 3
\* GoodAnswerException signals (for the questions at positions 0, 1, 2 in
\* that order) followed by exactly one VictoryException, and the Victory
\* page becomes active after the third CorrectAnswer page.
C17_HappyPath ==
    [][/\ received'.good > received.good
          => /\ signal'.exc = "GoodAnswerException"
             /\ signal'.question = received.good
             /\ received'.good = received.good + 1
             /\ received'.good <= 3
             /\ received.victory = 0
       /\ (\/ received'.victory > received.victory
           \/ (current_page'.kind = "VictoryPage"
               /\ current_page.kind # "VictoryPage"))
          => /\ NoLifelineUsed
             /\ current_page.kind = "GoodAnswerPage"
             /\ current_page.question = 2
             /\ current_page'.kind = "VictoryPage"
             /\ received.good = 3 /\ received'.good = 3
             /\ received.victory = 0 /\ received'.victory = 1
      ]_vars

\* C17 witness: the Victory page is active after three good answers and one
\* VictoryException.
C17_Witness ==
    /\ current_page.kind = "VictoryPage"
    /\ Len(questions) = 3
    /\ received = [good |-> 3, victory |-> 1, streak |-> 3]
    /\ NoLifelineUsed

OnPage(kind) == current_page.kind = kind

\* C18: there is no terminal page: while frames keep coming with advancing
\* time and no quit is asked, the Victory page is always eventually replaced
\* by Startup, and every CorrectAnswer, WrongAnswer, FiftyReveal,
\* PhoneReveal and AudienceReveal page is eventually left.
C18_NoTerminalPage ==
    /\ OnPage("VictoryPage") ~> OnPage("StartUpPage")
    /\ OnPage("GoodAnswerPage") ~> ~OnPage("GoodAnswerPage")
    /\ OnPage("BadAnswerPage") ~> ~OnPage("BadAnswerPage")
    /\ OnPage("FiftyPage") ~> ~OnPage("FiftyPage")
    /\ OnPage("PhonePage") ~> ~OnPage("PhonePage")
    /\ OnPage("PublicPage") ~> ~OnPage("PublicPage")

\* C18 witness: the Victory page has been shown for its whole 10 s window
\* and is still active.
C18_Witness ==
    /\ OnPage("VictoryPage")
    /\ current_page.age = HalfSeconds(VICTORY_WAIT)

\* The batches that hold no key press and no mouse click.
QuietBatches ==
    {b \in Batches :
        \A i \in DOMAIN b : b[i].type \notin {"KEYDOWN", "MOUSEBUTTONDOWN"}}

Waiting ==
    \/ OnPage("QuestionPage")
    \/ OnPage("StartUpPage") /\ ~current_page.animate_to_question

\* C19: the Startup page before its first input and the Question page wait
\* indefinitely: a frame that delivers no key press and no mouse click,
\* whatever time has elapsed, leaves the page the waiting Startup (resp.
\* Question) page and leaves the QuizState unchanged.
C19_WaitsForInput ==
    [][(Waiting /\ \E batch \in QuietBatches, dt \in 0..MaxTick :
                        step(batch, dt))
        => /\ current_page'.kind = current_page.kind
           /\ current_page'.animate_to_question
                = current_page.animate_to_question
           /\ current_page'.question = current_page.question
           /\ QuizUnchanged]_vars

\* C19 witness: the Startup page has had no click and has been shown for
\* longer than its time_to_wait, up to the end of its intro animation.
C19_Witness ==
    /\ OnPage("StartUpPage")
    /\ ~current_page.animate_to_question
    /\ current_page.age = IntroEnd
    /\ current_page.age > TimeToWait(current_page)
    /\ running

KeyDown(k) == [type |-> "KEYDOWN", key |-> k, button |-> 0, pos |-> Nowhere]

Clicks == {e \in Events : e.type = "MOUSEBUTTONDOWN"}

\* The frame comes while the intro animation of a Startup page that has had
\* no click is still running.
DuringIntro(dt) ==
    /\ OnPage("StartUpPage")
    /\ ~current_page.animate_to_question
    /\ current_page.age + dt < IntroEnd

OnWaitingStartup(page) ==
    /\ page.kind = "StartUpPage"
    /\ ~page.animate_to_question

HasPhone(q) == q.phone # <<>>

\* C25: after use_phone(), the stored friend suggestion (index, confidence)
\* has a confidence between 40 and 100 inclusive when the suggested index is
\* the correct one, and between 0 and 70 inclusive when it is an incorrect
\* one.
C25_PhoneConfidenceRange ==
    \A k \in 1..Len(questions) :
        LET q == questions[k] IN
        HasPhone(q) =>
            IF q.phone[1] = q.correct_answer
            THEN q.phone[2] >= 40 /\ q.phone[2] <= 100
            ELSE q.phone[2] >= 0 /\ q.phone[2] <= 70

\* C25 witness: the friend was called and named a wrong choice with the
\* highest confidence a wrong choice can get.
C25_Witness ==
    /\ signal.exc = "PhoneException"
    /\ LET q == At(questions, 0) IN
         /\ HasPhone(q)
         /\ q.phone[1] # q.correct_answer
         /\ q.phone[2] = 70

\* C26: use_phone() ends (some label of the current question is not the
\* marker, so the drawing loop can exit) and the index it suggests is a
\* choice that was not eliminated on the current question when it was
\* called; after the fifty-fifty lifeline on the same question it is one of
\* the two surviving choices.
C26_PhoneSuggestsSurvivor ==
    [][(OnQuestion /\ ~phone_used)
        => /\ Remaining(Current) # {}
           /\ CallUsePhone
               => LET q == At(questions', current_question) IN
                  /\ signal'.exc = "PhoneException"
                  /\ phone_used'
                  /\ HasPhone(q)
                  /\ q.phone[1] \in Remaining(Current)
                  /\ fifty_used
                      => /\ Cardinality(Remaining(Current)) = 2
                         /\ q.phone[1] \in Current.fifty_fifty]_vars

\* C26 witness: the friend was called after the fifty-fifty lifeline and
\* named the surviving wrong choice.
C26_Witness ==
    /\ signal.exc = "PhoneException"
    /\ fifty_used
    /\ LET q == At(questions, 0) IN
         /\ HasPhone(q)
         /\ Cardinality(Remaining(q)) = 2
         /\ q.phone[1] \in Remaining(q)
         /\ q.phone[1] # q.correct_answer

\* The choices the only record of the file flags as correct, in the order
\* of presentation (the order of the file: RANDOMIZE_CHOICES is off).
Flagged == {i \in Idx : yaml[1].choices[i].correct}

First(S) == CHOOSE i \in S : \A j \in S : i <= j

Last(S) == CHOOSE i \in S : \A j \in S : i >= j

\* C28 as stated: when a question record has several choices marked correct,
\* the first choice marked correct (in presentation order) becomes the
\* question's correct index; when none is marked, index 0 is the correct
\* index.
C28_FirstFlagWins ==
    At(questions, 0).correct_answer
        = IF Flagged = {} THEN 0 ELSE First(Flagged)

\* C28 amended: when a question record has several choices marked correct
\* and its construction completes, the last choice marked correct (in
\* presentation order) becomes the question's correct index; when none is
\* marked, index 0 is the correct index.
C28_LastFlagWins ==
    At(questions, 0).correct_answer
        = IF Flagged = {} THEN 0 ELSE Last(Flagged)

\* C28 witness: a question built from a record that flags its first and its
\* last choice has the last choice as its correct index.
C28_Witness ==
    /\ Flagged = {0, 3}
    /\ At(questions, 0).correct_answer = 3

\* The structure of a question: what construction fixes.
Structure(q) ==
    [fifty_fifty |-> q.fifty_fifty, correct_answer |-> q.correct_answer,
     answers |-> q.answers]

WellBuilt(q) ==
    /\ Cardinality(q.fifty_fifty) = 2
    /\ q.correct_answer \in q.fifty_fifty
    /\ \E w \in Others(q) : q.fifty_fifty = {q.correct_answer, w}
    /\ q.answers = [i \in Idx |-> Str(ChoiceTxt[i])]

\* C29: for every question built from a record with exactly one choice
\* marked correct, fifty_fifty holds exactly 2 indices, the correct index and
\* one of the 3 incorrect indices, from construction on, and no operation
\* after construction (use_fifty, use_phone, use_public, validate_answer)
\* changes the set, the correct index or the original answers list: they
\* change only when reset builds the questions anew.
C29_StructureImmutable ==
    [][/\ \A k \in 1..Len(questions) : WellBuilt(questions[k])
       /\ \A k \in 1..Len(questions') : WellBuilt(questions'[k])
       /\ \/ /\ Len(questions') = Len(questions)
             /\ \A k \in 1..Len(questions) :
                   Structure(questions'[k]) = Structure(questions[k])
          \/ CallReset]_vars

\* C29 witness: the three lifelines were used on a question, two of its
\* labels are eliminated and its four original answers are still there.
C29_Witness ==
    /\ fifty_used /\ phone_used /\ public_used
    /\ \E k \in 1..Len(questions) :
         LET q == questions[k] IN
         /\ HasPhone(q) /\ HasPublic(q)
         /\ Cardinality(Remaining(q)) = 2
         /\ WellBuilt(q)

\* The events that select nothing on the Question page, in the current
\* state of the lifelines.
SelectsNothing(e) ==
    \/ e.type = "KEYDOWN" /\ e.key \notin {"K_a", "K_b", "K_c", "K_d"}
    \/ e.type = "MOUSEMOTION"
    \/ /\ e.type = "MOUSEBUTTONDOWN"
       /\ \/ e.pos.over = "nothing"
          \/ e.pos.over = "button" /\ ButtonUsed(QL, e.pos.i)

\* C27: on the Question page, input that selects nothing is silently
\* ignored: a key press other than the four answer keys, a mouse move, and a
\* mouse click outside every answer rectangle and every unused lifeline
\* button (a click on an already used lifeline button included) raise no
\* signal and leave the active page and the QuizState unchanged.
C27_IgnoredInput ==
    [][\A dt \in 0..MaxTick : \A e \in Events :
          (OnPage("QuestionPage") /\ SelectsNothing(e) /\ step(<<e>>, dt))
            => /\ signal'.exc = "return"
               /\ frame'.caught = 0
               /\ current_page' = current_page
               /\ QuizUnchanged]_vars

\* C27 witness: the Question page is still shown after a frame that
\* dispatched one event to it and raised nothing, the fifty-fifty lifeline
\* being used already.
C27_Witness ==
    /\ OnPage("QuestionPage")
    /\ fifty_used
    /\ frame = [dispatched |-> 1, drawn |-> TRUE, caught |-> 0]
    /\ signal = NoSignal

\* The budget of each timed page, in seconds.
BudgetSeconds(kind) ==
    CASE kind = "GoodAnswerPage" -> 4
      [] kind = "BadAnswerPage" -> 8
      [] kind = "FiftyPage" -> 4
      [] kind = "PhonePage" -> 5
      [] kind = "PublicPage" -> 8
      [] OTHER -> 10

TimedKinds ==
    {"GoodAnswerPage", "BadAnswerPage", "FiftyPage", "PhonePage",
     "PublicPage", "VictoryPage"}

\* C23: each timed page makes its transition in the first frame whose time
\* elapsed since the construction of the page strictly exceeds its budget
\* (CorrectAnswer 4 s, WrongAnswer 8 s, FiftyReveal 4 s, PhoneReveal 5 s,
\* AudienceReveal 8 s, Victory 10 s), and a frame without input at or before
\* the budget leaves the page in place.
C23_TimeoutPastBudget ==
    [][\A dt \in 0..MaxTick :
          (current_page.kind \in TimedKinds /\ step(<<>>, dt))
            => IF current_page.age + dt > 2 * BudgetSeconds(current_page.kind)
               THEN /\ current_page'.kind # current_page.kind
                    /\ current_page'.age = 0
                    /\ frame'.drawn /\ frame'.caught >= 1
               ELSE /\ current_page' =
                          [current_page EXCEPT !.age = @ + dt]
                    /\ frame'.caught = 0]_vars

\* C23 witness: the AudienceReveal page has been shown for exactly its 8 s
\* and is still active after a frame that drew it.
C23_Witness ==
    /\ OnPage("PublicPage")
    /\ current_page.age = 16
    /\ frame = [dispatched |-> 0, drawn |-> TRUE, caught |-> 0]

\* The user asks to skip the page: space key or right mouse button.
Skips(e) ==
    \/ e.type = "KEYDOWN" /\ e.key = "K_SPACE"
    \/ e.type = "MOUSEBUTTONDOWN" /\ e.button = 3

PastBudget(dt) ==
    current_page.age + dt > 2 * BudgetSeconds(current_page.kind)

\* C24: the three reveal pages and the Victory page are left by timeout only:
\* while one of them is active, a frame changes the active page or any part
\* of the QuizState only through an exception that the page's draw raises
\* past the budget, whatever key press, mouse move or mouse click the frame
\* delivers; of the timed pages only the CorrectAnswer and WrongAnswer pages
\* are left through their event handler, which raises for the space key and
\* the right mouse button and for no other event.
C24_TimeoutOnlyPages ==
    [][/\ (/\ current_page.kind \in
                 {"FiftyPage", "PhonePage", "PublicPage", "VictoryPage"}
           /\ \/ current_page'.kind # current_page.kind
              \/ ~QuizUnchanged)
            => /\ frame'.drawn
               /\ signal'.exc \in {"BackToQuestionException",
                                   "StartupException"}
               /\ \E dt \in 0..MaxTick : PastBudget(dt)
       /\ (/\ current_page.kind \in {"GoodAnswerPage", "BadAnswerPage"}
           /\ current_page'.kind # current_page.kind
           /\ ~frame'.drawn)
            => frame'.dispatched >= 1
       /\ current_page.kind \in {"GoodAnswerPage", "BadAnswerPage"}
            => \A e \in LiveEvents :
                 LET raised == \E h \in handle_event(current_page, QL, e) :
                                  h.exc # "return"
                 IN raised <=> Skips(e)]_vars

\* C24 witness: the PhoneReveal page is still shown, within its budget, after
\* a frame that dispatched one event to it.
C24_Witness ==
    /\ OnPage("PhonePage")
    /\ current_page.age = 1
    /\ frame = [dispatched |-> 1, drawn |-> TRUE, caught |-> 0]
    /\ phone_used

QLNext ==
    [questions |-> questions', current_question |-> current_question',
     fifty_used |-> fifty_used', phone_used |-> phone_used',
     public_used |-> public_used']

\* The QuizState after the step is what one call of validate_answer or of a
\* use_<lifeline> operation makes of it.
ByQuizOperation ==
    \/ \E answer \in Idx : validate_answer(QL, answer).ql = QLNext
    \/ \E o \in use_fifty(QL) \cup use_phone(QL) \cup use_public(QL) :
          o.ql = QLNext

\* C30: between two session resets the QuizState (cursor, lifeline flags,
\* questions and their lifeline effects) is changed only by validate_answer
\* and the three use_<lifeline> operations, called by the event handler of
\* the Question page: a frame that changes it either is the transition to
\* Startup, which resets it, or raises the signal of one of these calls from
\* the Question page before any draw; every other frame (event dispatch that
\* calls none of them, draw, page construction, the other timeouts) leaves it
\* unchanged.
C30_QuizStateWriters ==
    [][~QuizUnchanged
        => \/ signal'.exc = "StartupException"
           \/ /\ OnPage("QuestionPage")
              /\ signal'.exc \in {"GoodAnswerException", "BadAnswerException",
                                  "FiftyException", "PhoneException",
                                  "PublicException"}
              /\ ~frame'.drawn
              /\ frame'.dispatched >= 1
              /\ ByQuizOperation]_vars

\* C30 witness: the fifty-fifty lifeline has just changed the QuizState from
\* the Question page of a session in which the phone lifeline was used.
C30_Witness ==
    /\ OnPage("FiftyPage")
    /\ signal.exc = "FiftyException"
    /\ fifty_used /\ phone_used /\ ~public_used
    /\ frame = [dispatched |-> 1, drawn |-> FALSE, caught |-> 1]

\* Whatever the frame delivers, Game.step returns: no exception leaves it.
StepReturns ==
    running => \A batch \in Batches, dt \in 0..MaxTick :
                  ENABLED step(batch, dt)

\* The class of the page the except clause of a signal constructs.
PageOf(exc) ==
    CASE exc = "StartupException" -> "StartUpPage"
      [] exc = "BackToQuestionException" -> "QuestionPage"
      [] exc = "VictoryException" -> "VictoryPage"
      [] exc = "GoodAnswerException" -> "GoodAnswerPage"
      [] exc = "BadAnswerException" -> "BadAnswerPage"
      [] exc = "FiftyException" -> "FiftyPage"
      [] exc = "PhoneException" -> "PhonePage"
      [] OTHER -> "PublicPage"

\* The active page is a page constructed in the last frame.
FreshPage ==
    /\ current_page.age = 0
    /\ ~current_page.animate_to_question

\* C22 as stated: every navigation signal is caught inside the Game.step call
\* in which it was raised (none escapes step), it causes exactly one
\* assignment of the active page, and at most one signal is handled per tick.
C22_OneSignalPerTick ==
    /\ StepReturns
    /\ IF signal.exc = "return" THEN frame.caught = 0
       ELSE /\ frame.caught = 1
            /\ FreshPage
            /\ current_page.kind = PageOf(signal.exc)

\* C22 amended: every navigation signal is caught inside the Game.step call
\* in which it was raised (none escapes step), a tick that handles a signal
\* makes exactly one assignment of the active page, and at most one signal is
\* handled per tick, except that a BackToQuestionException raised past the
\* last question is followed in the same tick by the VictoryException raised
\* while constructing the Question page: two signals, one assignment (of the
\* Victory page).
C22_SignalsConsumedInStep ==
    /\ StepReturns
    /\ IF signal.exc = "return" THEN frame.caught = 0
       ELSE /\ FreshPage
            /\ IF /\ signal.exc = "BackToQuestionException"
                  /\ current_question >= Len(questions)
               THEN frame.caught = 2 /\ OnPage("VictoryPage")
               ELSE frame.caught = 1 /\ OnPage(PageOf(signal.exc))

\* C22 witness: the tick that left the CorrectAnswer page of the last
\* question caught BackToQuestionException and then VictoryException, and
\* shows the Victory page.
C22_Witness ==
    /\ OnPage("VictoryPage")
    /\ FreshPage
    /\ signal.exc = "BackToQuestionException"
    /\ frame.caught = 2
    /\ current_question = Len(questions)

\* The signals that only an event handler raises.
HandlerSignals ==
    {"GoodAnswerException", "BadAnswerException", "FiftyException",
     "PhoneException", "PublicException"}

\* The dispatch of a batch ends at the first event whose handler raises: the
\* event that follows it in the batch changes nothing.
DispatchEndsAtSignal ==
    \A e1, e2 \in DispatchEvents : \A dt \in SessionTicks :
        LET page == Elapse(current_page, dt)
            first == handle_events(page, QL, <<e1>>)
        IN (\E r \in first : r.handled.exc # "return")
              => handle_events(page, QL, <<e1, e2>>) = first

\* C21: when a navigation signal is raised during a tick, in the dispatch of
\* the events or in draw, the rest of that tick is skipped for the old page:
\* no later event of the batch is dispatched to it, its draw is not called
\* after a handler raised, and the page that the later ticks call is the page
\* constructed for the signal, not the old one.
C21_SignalEndsTick ==
    /\ running => DispatchEndsAtSignal
    /\ signal.exc \in HandlerSignals
          => ~frame.drawn /\ frame.dispatched >= 1
    /\ frame.drawn => signal.exc \notin HandlerSignals
    /\ signal.exc # "return"
          => /\ FreshPage
             /\ frame.caught >= 1
             /\ \/ current_page.kind = PageOf(signal.exc)
                \/ /\ signal.exc = "BackToQuestionException"
                   /\ OnPage("VictoryPage")

\* C21 witness: a frame ended at the first event it dispatched, whose handler
\* raised BadAnswerException: the Question page was not drawn and the
\* WrongAnswer page was constructed.
C21_Witness ==
    /\ OnPage("BadAnswerPage")
    /\ FreshPage
    /\ signal.exc = "BadAnswerException"
    /\ frame = [dispatched |-> 1, drawn |-> FALSE, caught |-> 1]
    /\ NoLifelineUsed

\* C38: after use_public(), each of the 4 stored audience percentages is an
\* integer between 0 and 100 inclusive, with and without prior elimination.
C38_SharesWithinPercent ==
    \A k \in 1..Len(questions) :
        LET q == questions[k] IN
        HasPublic(q) =>
            \A i \in Idx : q.public[i] \in Int /\ q.public[i] >= 0
                                               /\ q.public[i] <= 100

\* C38 witness: the audience was asked after the elimination of two choices
\* and gave 40 to the correct choice, 60 to the other survivor and 0 to an
\* eliminated choice.
C38_Witness ==
    /\ signal.exc = "PublicException"
    /\ fifty_used
    /\ LET q == At(questions, 0) IN
         /\ HasPublic(q)
         /\ q.public[q.correct_answer] = 40
         /\ \E w \in Remaining(q) : q.public[w] = 60
         /\ \E i \in Idx \ Remaining(q) : q.public[i] = 0

\* C35: construction of a Question ends whatever set of choices its record
\* flags as correct: as long as __init__ has not returned, one more step of
\* it changes its state (the completion loop never turns forever on a set
\* it cannot change).
C35_ConstructionTerminates ==
    building.at \in {"for", "while"} => ENABLED <<BuildNext>>_vars

\* The steps of __init__ agree with Question_init.
BuiltAsQuestion_init ==
    building.at = "built" => At(questions, 0) \in Question_init(building.data)

\* C31: a reveal page is shown only on a question that holds the state it
\* displays, and only while its lifeline is flagged as used: the question of
\* an active PhonePage stores a suggestion (index, confidence), the question
\* of an active PublicPage stores a distribution over the 4 choices, and the
\* flag of the lifeline of any active reveal page is true.
RevealedQuestion == At(questions, current_page.question)

C31_RevealAfterLifelineState ==
    /\ OnPage("FiftyPage") => fifty_used
    /\ OnPage("PhonePage") =>
         /\ phone_used
         /\ current_page.question \in 0..(Len(questions) - 1)
         /\ HasPhone(RevealedQuestion)
         /\ Len(RevealedQuestion.phone) = 2
    /\ OnPage("PublicPage") =>
         /\ public_used
         /\ current_page.question \in 0..(Len(questions) - 1)
         /\ HasPublic(RevealedQuestion)
         /\ DOMAIN RevealedQuestion.public = Idx

\* A PhonePage shown after the fifty-fifty and the audience lifelines, on the
\* first tick a reveal page is constructed in.
C31_Witness ==
    /\ OnPage("PhonePage")
    /\ current_page.age = 0
    /\ signal.exc = "PhoneException"
    /\ fifty_used /\ public_used /\ phone_used
    /\ HasPhone(RevealedQuestion)
    /\ HasPublic(RevealedQuestion)

\* C32: between two ticks the active page and the cursor agree: on the
\* Question page the cursor is before the end of the list, on the Victory
\* page it is at the end, on the BadAnswer page it is 0, on the GoodAnswer
\* page it is at least 1, on a reveal page it is the position of the question
\* the lifeline was invoked on.  The GoodAnswer page of the last question is
\* left for the Victory page and no other.
RevealKinds == {"FiftyPage", "PhonePage", "PublicPage"}

PageAgreesWithCursor ==
    /\ OnPage("QuestionPage") =>
         /\ current_question < Len(questions)
         /\ current_page.question = current_question
    /\ OnPage("VictoryPage") => current_question = Len(questions)
    /\ OnPage("BadAnswerPage") => current_question = 0
    /\ OnPage("GoodAnswerPage") =>
         /\ current_question >= 1
         /\ current_question = current_page.question + 1
    /\ current_page.kind \in RevealKinds =>
         /\ current_question = current_page.question
         /\ current_question < Len(questions)

C32_PageAgreesWithCursor ==
    /\ PageAgreesWithCursor
    /\ [][/\ PageAgreesWithCursor'
          /\ ( /\ OnPage("GoodAnswerPage")
               /\ current_question = Len(questions)
               /\ current_page'.kind # "GoodAnswerPage" )
             => current_page'.kind = "VictoryPage"]_vars

\* The Victory page reached from the GoodAnswer page of the second question,
\* the fifty-fifty having been revealed on that second question.
C32_Witness ==
    /\ OnPage("VictoryPage")
    /\ current_question = 2
    /\ Len(questions) = 2
    /\ current_page.age = 0
    /\ fifty_used
    /\ \E i \in Idx : At(questions, 1).display_answers[i] = ELIMINATED

\* C33: the Victory page is active only when the correct answers given in a
\* row since the last wrong answer and the last reset number len(questions):
\* neither lifelines nor skips, timeouts or ignored inputs make up for a
\* missing correct answer.
C33_VictoryAfterFullStreak ==
    OnPage("VictoryPage") =>
        /\ received.streak = Len(questions)
        /\ received.good >= Len(questions)
        /\ current_question = Len(questions)

\* The Victory page of a session of two questions on the tick it is
\* installed, after two correct answers in a row and a use of the
\* fifty-fifty.
C33_Witness ==
    /\ OnPage("VictoryPage")
    /\ current_page.age = 0
    /\ signal.exc = "BackToQuestionException"
    /\ Len(questions) = 2
    /\ received.streak = 2
    /\ fifty_used

\* C34: a lifeline acts on the current question alone.  In the tick a
\* lifeline is invoked the cursor stays, every other question of the session
\* keeps its labels, suggestion and distribution, and the reveal page of the
\* current question is installed; the reveal page is left for the Question
\* page of that same question, the QuizState untouched; and no question after
\* the one the fifty-fifty was used on has an eliminated choice, while the
\* flag stays set.
Eliminated(q) == Idx \ Remaining(q)

LifelineInvoked ==
    /\ signal'.exc \in RevealSignals
    /\ current_question' = current_question
    /\ Len(questions') = Len(questions)
    /\ \A k \in 0..(Len(questions) - 1) :
         k # current_question => At(questions', k) = At(questions, k)
    /\ At(questions', current_question) # At(questions, current_question)
    /\ current_page'.kind \in RevealKinds
    /\ current_page'.question = current_question

RevealLeft ==
    /\ current_page'.kind = "QuestionPage"
    /\ current_page'.question = current_page.question
    /\ current_question' = current_question
    /\ questions' = questions
    /\ fifty_used' = fifty_used
    /\ phone_used' = phone_used
    /\ public_used' = public_used

FiftyOnOneQuestion ==
    \A j, k \in 0..(Len(questions) - 1) :
        (j < k /\ Eliminated(At(questions, j)) # {}) =>
            /\ fifty_used
            /\ Eliminated(At(questions, k)) = {}

C34_LifelineActsOnCurrent ==
    /\ FiftyOnOneQuestion
    /\ [][/\ FiftyOnOneQuestion'
          /\ signal'.exc \in RevealSignals => LifelineInvoked
          /\ ( /\ current_page.kind \in RevealKinds
               /\ current_page'.kind # current_page.kind ) => RevealLeft]_vars

\* The Question page of the second question, right after the reveal page of
\* the friend's suggestion on it, the fifty-fifty having been used on the
\* first question: the second question has its four choices, the first one
\* keeps its two eliminated ones and no suggestion.
C34_Witness ==
    /\ OnPage("QuestionPage")
    /\ current_page.age = 0
    /\ signal.exc = "BackToQuestionException"
    /\ current_question = 1
    /\ fifty_used /\ phone_used
    /\ Cardinality(Eliminated(At(questions, 0))) = 2
    /\ ~HasPhone(At(questions, 0))
    /\ Eliminated(At(questions, 1)) = {}
    /\ HasPhone(At(questions, 1))

\* C36: a request to quit (the QUIT event or a press of the escape key) met
\* by the dispatch of a batch ends the main loop in that tick.  Events that
\* follow it in the batch are not dispatched, the page is not drawn, no
\* exception is caught, and neither the page that is active nor the
\* QuizState changes; this on every page.  The request is met whenever the
\* handlers of the events before it in the batch returned without raising.
QuitRequests ==
    {e \in DispatchEvents :
        \/ e.type = "QUIT"
        \/ e.type = "KEYDOWN" /\ e.key = "K_ESCAPE"}

QuitEndsDispatch ==
    \A q \in QuitRequests : \A dt \in SessionTicks :
        LET page == Elapse(current_page, dt)
            alone == handle_events(page, QL, <<q>>)
        IN /\ alone = {[handled |-> Returned(page, QL), proceed |-> FALSE,
                        dispatched |-> 0]}
           /\ \A e \in DispatchEvents :
                /\ handle_events(page, QL, <<q, e>>) = alone
                /\ \A h \in handle_event(page, QL, e) :
                     (e \notin QuitRequests /\ h.exc = "return") =>
                        [handled |-> Returned(h.page, h.ql),
                         proceed |-> FALSE, dispatched |-> 1]
                           \in handle_events(page, QL, <<e, q>>)

QuitTick ==
    /\ ~frame'.drawn
    /\ frame'.caught = 0
    /\ signal' = NoSignal
    /\ QuizUnchanged
    /\ current_page'.kind = current_page.kind
    /\ current_page'.question = current_page.question
    /\ current_page'.answer = current_page.answer
    /\ frame'.dispatched = 0 =>
          \E dt \in SessionTicks : current_page' = Elapse(current_page, dt)

\* No tick starts once the loop has been left, and a tick that leaves it is
\* a QuitTick.
C36_QuitEndsLoop ==
    /\ [](running => QuitEndsDispatch)
    /\ [][running /\ (~running' => QuitTick)]_vars

\* The loop left on the Question page by a press of the escape key that
\* followed, in the same batch, a click on the fifty-fifty button already
\* used: one event was dispatched, nothing was drawn.
C36_Witness ==
    /\ ~running
    /\ OnPage("QuestionPage")
    /\ fifty_used
    /\ frame = [dispatched |-> 1, drawn |-> FALSE, caught |-> 0]
    /\ signal = NoSignal

\* C37: on the Startup page the first mouse click starts the animation and
\* its timer; a later click changes neither; the page is left by draw for
\* the Question page in the first frame drawn more than 2.5 s after that
\* click and in no earlier one; before the first click no amount of elapsed
\* time makes draw leave the page.
Animating ==
    OnPage("StartUpPage") /\ current_page.animate_to_question

ClickOnStartup ==
    \A e \in Clicks : \A dt \in 0..MaxTick :
        LET page == Elapse(current_page, dt) IN
        /\ OnWaitingStartup(current_page) =>
              StartUpPage_handle_event(page, QL, e)
                 = {Returned([page EXCEPT !.animate_to_question = TRUE,
                                          !.age = 0], QL)}
        /\ Animating =>
              StartUpPage_handle_event(page, QL, e) = {Returned(page, QL)}

StartupTimer ==
    /\ (OnWaitingStartup(current_page) /\ Animating') =>
          /\ current_page'.age = 0
          /\ frame'.dispatched >= 1
    /\ (Animating /\ Animating') =>
          /\ \E dt \in 0..MaxTick : current_page'.age = current_page.age + dt
          /\ frame'.drawn => current_page'.age <= STARTUP_WAIT
    /\ (Animating /\ ~OnPage("StartUpPage")' /\ frame'.drawn) =>
          /\ current_page'.kind = "QuestionPage"
          /\ \E dt \in 0..MaxTick : current_page.age + dt > STARTUP_WAIT
    /\ (OnWaitingStartup(current_page) /\ frame'.drawn) =>
          OnPage("StartUpPage")'

C37_ClickStartsTimer ==
    /\ [](running => ClickOnStartup)
    /\ [][StartupTimer]_vars

\* The Question page opened by the draw of the Startup page, in a frame that
\* had dispatched one more event to the animating page.
C37_Witness ==
    /\ OnPage("QuestionPage")
    /\ signal.exc = "BackToQuestionException"
    /\ frame = [dispatched |-> 1, drawn |-> TRUE, caught |-> 1]
    /\ NoLifelineUsed
    /\ received = NoneReceived

====
